---- MODULE Spec2Model ----
(***************************************************************************)
(* The product dialog of the admin panel (ProductManagement) and the       *)
(* tables it writes: the form state kept by the component, the handlers    *)
(* that edit it, the asynchronous handleSubmit with its awaits, the        *)
(* product-details query with the effect that populates the form, and the  *)
(* products / product_variants / colors tables with the constraints of     *)
(* the schema.                                                             *)
(***************************************************************************)
EXTENDS Integers, Sequences, FiniteSets, TLC

(***************************************************************************)
(* Bounds of the model.                                                    *)
(***************************************************************************)
MaxInFlight == 2      \* handleSubmit executions that may be awaiting at once
MaxEvents == 4        \* events of the admin (open, edit, submit) in one run
MaxFailures == 1      \* requests that fail in one run
MaxPending == 1       \* pending files held by the form
MaxArgLen == 2        \* length of the lists handed to setColors / setSizes

(***************************************************************************)
(* Values.                                                                 *)
(***************************************************************************)
NULL == "null"
NoProduct == [ id |-> NULL ]        \* editingProduct = null
NoId == 0                           \* a variant that has no row yet (id undefined)
ColorIds == {"c1", "c2"}
SizeLabels == {"S", "Medium"}
ProductIds == {"p1", "p2"}
Files == {"f1"}
RandomSuffixes == {"K7Q2", "X9A1"}
ProductSkus == {"", "NH"}

\* The colors of the library: ColorItem.name by ColorItem.id.
ColorName(c) == IF c = "c1" THEN "Red" ELSE "Blue"

\* String.prototype.toUpperCase, one character at a time.
UpperChar(ch) ==
    CASE ch = "e" -> "E"
      [] ch = "d" -> "D"
      [] ch = "l" -> "L"
      [] ch = "u" -> "U"
      [] ch = "i" -> "I"
      [] ch = "m" -> "M"
      [] OTHER -> ch

RECURSIVE toUpperCase(_)
toUpperCase(s) ==
    IF Len(s) = 0 THEN ""
    ELSE UpperChar(SubSeq(s, 1, 1)) \o toUpperCase(SubSeq(s, 2, Len(s)))

\* String.prototype.substring(0, n).
substring0(s, n) == IF Len(s) <= n THEN s ELSE SubSeq(s, 1, n)

\* The SKU template of setSizes / setColors;  rnd  stands for
\* Math.random().toString(36).substring(2, 6).toUpperCase().
GenSku(prevSku, colorName, size, rnd) ==
    (IF prevSku # "" THEN prevSku \o "-" ELSE "")
        \o toUpperCase(substring0(colorName, 3)) \o "-"
        \o toUpperCase(substring0(size, 3)) \o "-" \o rnd

\* The variant pushed by setSizes / setColors for a missing (color, size);
\* ref  is the identity of the new object.
NewVariant(prevSku, color, size, rnd, ref) ==
    [ ref |-> ref, id |-> NoId, color_id |-> color, size |-> size,
      sku |-> GenSku(prevSku, ColorName(color), size, rnd),
      price |-> NULL, stock_quantity |-> 0, image_urls |-> <<>>,
      is_primary |-> FALSE ]

(***************************************************************************)
(* Helpers on lists.                                                       *)
(***************************************************************************)
Range(s) == { s[i] : i \in 1..Len(s) }

Includes(s, x) == \E i \in 1..Len(s) : s[i] = x

RECURSIVE Filter(_, _)
\* Array.prototype.filter by a set of kept indexes.
Filter(s, keep) ==
    IF s = <<>> THEN <<>>
    ELSE LET n == Len(s)
             front == Filter(SubSeq(s, 1, n - 1), keep)
         IN  IF n \in keep THEN Append(front, s[n]) ELSE front

\* prev.variants.findIndex(varnt => varnt.color_id === colorId), 1-based and
\* 0 when there is none.
findIndex(vs, colorId) ==
    IF \E i \in 1..Len(vs) : vs[i].color_id = colorId
    THEN CHOOSE i \in 1..Len(vs) :
            /\ vs[i].color_id = colorId
            /\ \A j \in 1..(i - 1) : vs[j].color_id # colorId
    ELSE 0

RECURSIVE SumStock(_)
\* currentVariants.reduce((acc, v) => acc + v.stock_quantity, 0)
SumStock(vs) ==
    IF vs = <<>> THEN 0 ELSE Head(vs).stock_quantity + SumStock(Tail(vs))

\* The (outer, inner) pairs in the order of two nested forEach loops.
RECURSIVE NestedPairs(_, _)
NestedPairs(outer, inner) ==
    IF outer = <<>> THEN <<>>
    ELSE [ j \in 1..Len(inner) |-> <<Head(outer), inner[j]>> ]
            \o NestedPairs(Tail(outer), inner)

\* A faulty find: a variant of the size counts, whatever its color.
ExistsVariantOfSize(vs, color, size) ==
    \E i \in 1..Len(vs) : vs[i].size = size

ExistsVariant(vs, color, size) ==
    \E i \in 1..Len(vs) : vs[i].color_id = color /\ vs[i].size = size

\* The forEach / find / push loop shared by setSizes and setColors:  pairs
\* are <<color, size>> in loop order,  rnd  gives each pair its random suffix,
\* refs  are the identities of the objects to be created.
RECURSIVE PushMissing(_, _, _, _, _)
PushMissing(newVariants, pairs, prevSku, rnd, refs) ==
    IF pairs = <<>> THEN newVariants
    ELSE LET color == Head(pairs)[1]
             size == Head(pairs)[2]
         IN  IF ExistsVariant(newVariants, color, size)
             THEN PushMissing(newVariants, Tail(pairs), prevSku, rnd, refs)
             ELSE PushMissing(
                     Append(newVariants,
                            NewVariant(prevSku, color, size, rnd[<<color, size>>], Head(refs))),
                     Tail(pairs), prevSku, rnd, Tail(refs))

(***************************************************************************)
(* The updater functions of the form (the argument of setFormData).        *)
(***************************************************************************)
\* A faulty setSizes: the kept variants are rebuilt without their primary flag.
setSizesForgetPrimary(prev, sizes, rnd, refs) ==
    LET keep == { i \in 1..Len(prev.variants) : Includes(sizes, prev.variants[i].size) }
        kept == Filter([ i \in 1..Len(prev.variants) |->
                           [ prev.variants[i] EXCEPT !.is_primary = FALSE ] ], keep)
        swapped == NestedPairs(sizes, prev.colors)
        pairs == [ k \in 1..Len(swapped) |-> <<swapped[k][2], swapped[k][1]>> ]
    IN  [ prev EXCEPT !.sizes = sizes,
                      !.variants = PushMissing(kept, pairs, prev.sku, rnd, refs) ]

\* A faulty setSizes: step 1 (the filter by size) is left out.
setSizesNoFilter(prev, sizes, rnd, refs) ==
    LET swapped == NestedPairs(sizes, prev.colors)
        pairs == [ k \in 1..Len(swapped) |-> <<swapped[k][2], swapped[k][1]>> ]
    IN  [ prev EXCEPT !.sizes = sizes,
                      !.variants = PushMissing(prev.variants, pairs, prev.sku, rnd, refs) ]

\* setSizes: the variants whose size stays, then the missing pairs.
setSizes(prev, sizes, rnd, refs) ==
    LET newSizes == sizes
        kept == Filter(prev.variants,
                       { i \in 1..Len(prev.variants) : Includes(newSizes, prev.variants[i].size) })
        swapped == NestedPairs(newSizes, prev.colors)
        pairs == [ k \in 1..Len(swapped) |-> <<swapped[k][2], swapped[k][1]>> ]
    IN  [ prev EXCEPT !.sizes = newSizes,
                      !.variants = PushMissing(kept, pairs, prev.sku, rnd, refs) ]

\* A faulty setColors: the filter lets the variants without a color through.
setColorsKeepNull(prev, colors, rnd, refs) ==
    LET kept == Filter(prev.variants,
                       { i \in 1..Len(prev.variants) :
                            \/ prev.variants[i].color_id = NULL
                            \/ Includes(colors, prev.variants[i].color_id) })
    IN  [ prev EXCEPT !.colors = colors,
                      !.variants = PushMissing(kept, NestedPairs(colors, prev.sizes),
                                               prev.sku, rnd, refs) ]

\* A faulty setColors: step 1 (the filter by color) is left out.
setColorsNoFilter(prev, colors, rnd, refs) ==
    [ prev EXCEPT !.colors = colors,
                  !.variants = PushMissing(prev.variants, NestedPairs(colors, prev.sizes),
                                           prev.sku, rnd, refs) ]

\* A faulty setColors: step 2 (the push of the missing pairs) is left out.
setColorsOnlyFilter(prev, colors, rnd, refs) ==
    [ prev EXCEPT !.colors = colors,
                  !.variants = Filter(prev.variants,
                       { i \in 1..Len(prev.variants) :
                            /\ prev.variants[i].color_id # NULL
                            /\ Includes(colors, prev.variants[i].color_id) }) ]

\* setColors: the variants whose color stays, then the missing pairs.
setColors(prev, colors, rnd, refs) ==
    LET newColors == colors
        kept == Filter(prev.variants,
                       { i \in 1..Len(prev.variants) :
                            /\ prev.variants[i].color_id # NULL
                            /\ Includes(newColors, prev.variants[i].color_id) })
        pairs == NestedPairs(newColors, prev.sizes)
    IN  [ prev EXCEPT !.colors = newColors,
                      !.variants = PushMissing(kept, pairs, prev.sku, rnd, refs) ]

\* updateVariant(index, updates):  updates  is a record of the fields set;
\* the variant at  index  is replaced by a new object.
updateVariant(prev, index, updates, ref) ==
    [ prev EXCEPT !.variants[index] =
        [ f \in DOMAIN @ |-> IF f \in DOMAIN updates THEN updates[f]
                             ELSE IF f = "ref" THEN ref ELSE @[f] ] ]

removeVariant(prev, index) ==
    [ prev EXCEPT !.variants =
        Filter(@, { i \in 1..Len(@) : i # index }) ]

\* A faulty setPrimaryColor: every variant of the color gets the flag.
setPrimaryColorAll(prev, colorId, refs) ==
    LET vs == prev.variants
    IN  [ prev EXCEPT !.variants =
            [ i \in 1..Len(vs) |->
                [ vs[i] EXCEPT !.is_primary = (colorId = vs[i].color_id),
                               !.ref = refs[i] ] ] ]

\* setPrimaryColor: map makes a new object of every variant.
setPrimaryColor(prev, colorId, refs) ==
    LET vs == prev.variants
        \* the first variant of this color is the flag bearer
        first == findIndex(vs, colorId)
    IN  [ prev EXCEPT !.variants =
            [ i \in 1..Len(vs) |->
                [ vs[i] EXCEPT !.is_primary = (colorId = vs[i].color_id /\ first = i),
                               !.ref = refs[i] ] ] ]

\* removeColorImage: the variants of the color are replaced by new objects.
removeColorImage(prev, colorId, urlToRemove, refs) ==
    LET vs == prev.variants
    IN  [ prev EXCEPT !.variants =
            [ i \in 1..Len(vs) |->
                IF vs[i].color_id = colorId
                THEN [ vs[i] EXCEPT !.image_urls =
                         Filter(@, { k \in 1..Len(@) : @[k] # urlToRemove }),
                                    !.ref = refs[i] ]
                ELSE vs[i] ] ]

\* The form of resetForm.
EmptyForm ==
    [ sku |-> "", stock_quantity |-> "", variants |-> <<>>,
      colors |-> <<>>, sizes |-> <<>> ]

(***************************************************************************)
(* State.                                                                  *)
(***************************************************************************)
VARIABLES
    formData,           \* useState formData: sku, stock_quantity, variants, colors, sizes
    pendingFiles,       \* useState pendingFiles: list of [file, colorId]
    isDialogOpen,       \* useState isDialogOpen
    editingProduct,     \* useState editingProduct: a row of the product list, or NoProduct
    selectedProductId,  \* useState selectedProductId
    submits,            \* the handleSubmit executions that are awaiting
    query,              \* the product-details queries: data, stale, fetching by product id
    products,           \* table products: id -> [sku, stock_quantity]
    product_variants,   \* table product_variants, in insertion order
    colorsTable,        \* table colors (ids)
    nextProduct,        \* the number of product ids handed out by gen_random_uuid
    nextRow,            \* the number of variant row ids handed out by gen_random_uuid
    uploadCount,        \* the number of objects written to the product-images bucket
    orders,             \* table orders: id -> status
    used,               \* events counted against the bounds
    lastOp              \* the last event, when it is one the properties speak about

vars == << formData, pendingFiles, isDialogOpen, editingProduct, selectedProductId,
           submits, query, products, product_variants, colorsTable, nextProduct,
           nextRow, uploadCount, orders, used, lastOp >>

formVars == << formData, pendingFiles, isDialogOpen, editingProduct, selectedProductId >>
dbVars == << products, product_variants, colorsTable, nextProduct, nextRow, uploadCount,
            orders >>

\* The order screen: the items of the status Select, and the CHECK constraint
\* of orders.status with its default.
OrderIds == {"o1", "o2", "o3"}
StatusItems == {"pending", "processing", "shipped", "delivered", "cancelled"}
OrdersStatusCheck == {"pending", "shipped", "delivered", "cancelled"}
SeedOrders == [ o \in OrderIds |-> "pending" ]

NoData == [ none |-> TRUE ]
NoUse == [ events |-> 0, failures |-> 0 ]

ProductId(n) == IF n = 1 THEN "p1" ELSE "p2"

\* The n-th public URL handed out by uploadProductImage (Date.now() and
\* Math.random() make every path new).
PublicUrl(n) == "products/" \o ToString(n)

Count(field) == [ used EXCEPT ![field] = @ + 1 ]

(***************************************************************************)
(* The rows stored for a product and what the details query makes of them. *)
(***************************************************************************)
RowsOf(table, p) ==
    Filter(table, { i \in 1..Len(table) : table[i].product_id = p })

\* A stored row as the form holds it (the form never reads the other columns);
\* the queryFn makes a new object of every row.
AsVariant(row, ref) ==
    [ ref |-> ref, id |-> row.id, color_id |-> row.color_id, size |-> row.size, sku |-> row.sku,
      price |-> row.price, stock_quantity |-> row.stock_quantity,
      image_urls |-> row.image_urls, is_primary |-> row.is_primary ]

RECURSIVE Distinct(_)
\* The values of a list in order of first appearance (Map keys, new Set).
Distinct(s) ==
    IF s = <<>> THEN <<>>
    ELSE LET front == Distinct(SubSeq(s, 1, Len(s) - 1))
         IN  IF Includes(front, s[Len(s)]) THEN front ELSE Append(front, s[Len(s)])

\* queryFn of the product-details query, on the rows the select returned.
ProductDetails(p, row, rows, refs) ==
    LET variants == [ i \in 1..Len(rows) |-> AsVariant(rows[i], refs[i]) ]
        colored == Filter(variants, { i \in 1..Len(variants) : variants[i].color_id # NULL })
    IN  [ id |-> p, sku |-> row.sku, stock_quantity |-> row.stock_quantity,
          variants |-> variants,
          colors |-> Distinct([ i \in 1..Len(colored) |-> colored[i].color_id ]),
          sizes |-> Distinct([ i \in 1..Len(variants) |-> variants[i].size ]) ]

\* The query cache keeps the objects it has for the parts of a refetched
\* result that are equal to what it had (structural sharing, the default of
\* the QueryClient).
SameValue(a, b) == [ a EXCEPT !.ref = b.ref ] = b

Shared(old, new) ==
    IF old = NoData THEN new
    ELSE [ new EXCEPT !.variants =
            [ i \in 1..Len(new.variants) |->
                IF i <= Len(old.variants) /\ SameValue(old.variants[i], new.variants[i])
                THEN old.variants[i]
                ELSE new.variants[i] ] ]

\* The row of the product list handed to handleOpenEdit.
ListRow(p) == [ id |-> p, sku |-> products[p].sku,
                stock_quantity |-> products[p].stock_quantity ]

\* useQuery data for the key ["product-details", selected].
DetailsOf(q, selected) == IF selected = NULL THEN NoData ELSE q[selected].data

\* The effect that populates the form: it runs when one of its dependencies
\* changed with the render, and acts when its condition holds.
PopulateForm(form, depsBefore, depsAfter) ==
    LET productDetails == depsAfter[1]
        editing == depsAfter[2]
        selected == depsAfter[3]
    IN  IF /\ depsBefore # depsAfter
           /\ productDetails # NoData
           /\ editing # NoProduct
           /\ selected = editing.id
        THEN [ sku |-> productDetails.sku,
               stock_quantity |-> ToString(productDetails.stock_quantity),
               variants |-> productDetails.variants,
               colors |-> productDetails.colors,
               sizes |-> productDetails.sizes ]
        ELSE form

Deps == << DetailsOf(query, selectedProductId), editingProduct, selectedProductId >>

(***************************************************************************)
(* Object identity.  The variants are JavaScript objects: the form, the    *)
(* cached query data and the currentVariants of a running handleSubmit may *)
(* hold the very same object, and handleSubmit writes is_primary into an   *)
(* object in place.  Every variant carries its identity in  ref ; two      *)
(* records with the same  ref  are one object.                             *)
(***************************************************************************)
RefsOf(vs) == { vs[i].ref : i \in 1..Len(vs) }

\* The objects some part of the state still refers to.
LiveRefs ==
    RefsOf(formData.variants)
        \cup UNION { RefsOf(submits[k].currentVariants) : k \in 1..Len(submits) }
        \cup UNION { RefsOf(query[p].data.variants) :
                        p \in { q \in DOMAIN query : query[q].data # NoData } }

\* The identities of  n  new objects.
NewRefs(n) ==
    LET unused == (1..(Cardinality(LiveRefs) + n)) \ LiveRefs
    IN  [ i \in 1..n |-> CHOOSE x \in unused : Cardinality({ y \in unused : y < x }) = i - 1 ]

\* currentVariants[0].is_primary = true, seen through every reference to the
\* object.
WithPrimary(vs, ref) ==
    [ i \in 1..Len(vs) |->
        IF vs[i].ref = ref THEN [ vs[i] EXCEPT !.is_primary = TRUE ] ELSE vs[i] ]

SizeKept(form, sizes) ==
    { i \in 1..Len(form.variants) : Includes(sizes, form.variants[i].size) }

ColorKept(form, colors) ==
    { i \in 1..Len(form.variants) :
        form.variants[i].color_id # NULL /\ Includes(colors, form.variants[i].color_id) }

\* The pairs for which a call pushes a variant, and a random suffix for each.
MissingPairs(kept, colors, sizes) ==
    { pr \in Range(colors) \X Range(sizes) : ~ExistsVariant(kept, pr[1], pr[2]) }

SuffixesFor(pairs) == [ pairs -> RandomSuffixes ]

(***************************************************************************)
(* Events of the open dialog that edit the form.                           *)
(***************************************************************************)
FormUpdate(newForm, op) ==
    /\ isDialogOpen
    /\ formData' = newForm
    /\ lastOp' = op
    /\ UNCHANGED << pendingFiles, isDialogOpen, editingProduct, selectedProductId,
                    submits, query >>
    /\ UNCHANGED dbVars

\* setColors / setSizes called with any list (the functions by themselves).
CallSetColors(colors) ==
    LET kept == ColorKept(formData, colors)
        keptList == Filter(formData.variants, kept)
    IN  \E rnd \in SuffixesFor(MissingPairs(keptList, colors, formData.sizes)) :
            FormUpdate(setColors(formData, colors, rnd,
                                 NewRefs(Len(colors) * Len(formData.sizes))),
                       [ op |-> "setColors",
                         n |-> Len(formData.variants), kept |-> Cardinality(kept) ])

CallSetSizes(sizes) ==
    LET kept == SizeKept(formData, sizes)
        keptList == Filter(formData.variants, kept)
    IN  \E rnd \in SuffixesFor(MissingPairs(keptList, formData.colors, sizes)) :
            FormUpdate(setSizes(formData, sizes, rnd,
                                NewRefs(Len(formData.colors) * Len(sizes))),
                       [ op |-> "setSizes",
                         n |-> Len(formData.variants), kept |-> Cardinality(kept) ])

\* The color Select: a library color not yet chosen is appended.
AddColor(c) ==
    /\ c \in colorsTable
    /\ ~\E i \in 1..Len(formData.colors) : ColorName(formData.colors[i]) = ColorName(c)
    /\ CallSetColors(Append(formData.colors, c))

\* The X of a color badge.
RemoveColor(i) ==
    /\ i \in 1..Len(formData.colors)
    /\ CallSetColors(Filter(formData.colors, { k \in 1..Len(formData.colors) : k # i }))

\* TagInput.addTag on the sizes.
AddSize(size) ==
    /\ ~Includes(formData.sizes, size)
    /\ CallSetSizes(Append(formData.sizes, size))

\* TagInput.removeTag on the sizes.
RemoveSize(i) ==
    /\ i \in 1..Len(formData.sizes)
    /\ CallSetSizes(Filter(formData.sizes, { k \in 1..Len(formData.sizes) : k # i }))

\* The inputs of a variant row: the size Select offers the chosen sizes, the
\* others are typed.
VariantUpdates ==
    { [ size |-> sz ] : sz \in Range(formData.sizes) }
        \cup { [ sku |-> "CUSTOM" ], [ stock_quantity |-> 3 ], [ price |-> "10.00" ] }

UpdateVariant(index, updates) ==
    /\ index \in 1..Len(formData.variants)
    /\ formData.variants[index].color_id \in Range(formData.colors)
    /\ updates \in VariantUpdates
    /\ FormUpdate(updateVariant(formData, index, updates, NewRefs(1)[1]),
                  [ op |-> "other" ])

RemoveVariant(index) ==
    /\ index \in 1..Len(formData.variants)
    /\ formData.variants[index].color_id \in Range(formData.colors)
    /\ FormUpdate(removeVariant(formData, index),
                  [ op |-> "other" ])

SetPrimaryColor(colorId) ==
    /\ colorId \in Range(formData.colors)
    /\ FormUpdate(setPrimaryColor(formData, colorId, NewRefs(Len(formData.variants))),
                  [ op |-> "setPrimaryColor", arg |-> colorId ])

RemoveColorImage(colorId, url) ==
    /\ colorId \in Range(formData.colors)
    /\ \E i \in 1..Len(formData.variants) :
          /\ formData.variants[i].color_id = colorId
          /\ Includes(formData.variants[i].image_urls, url)
    /\ FormUpdate(removeColorImage(formData, colorId, url,
                                    NewRefs(Len(formData.variants))),
                  [ op |-> "other" ])

\* The SKU and Stock inputs of the product.
EditField(field, value) ==
    /\ formData[field] # value
    /\ FormUpdate([ formData EXCEPT ![field] = value ],
                  [ op |-> "other" ])

\* handleImageUpload for the file input of a color.
HandleImageUpload(file, colorId) ==
    /\ isDialogOpen
    /\ colorId \in Range(formData.colors)
    /\ Len(pendingFiles) < MaxPending
    /\ pendingFiles' = Append(pendingFiles, [ file |-> file, colorId |-> colorId ])
    /\ lastOp' = [ op |-> "other" ]
    /\ UNCHANGED << formData, isDialogOpen, editingProduct, selectedProductId, submits, query >>
    /\ UNCHANGED dbVars

\* The X of a pending image.
RemovePending(i) ==
    /\ isDialogOpen
    /\ i \in 1..Len(pendingFiles)
    /\ pendingFiles[i].colorId \in Range(formData.colors)
    /\ pendingFiles' = Filter(pendingFiles, { k \in 1..Len(pendingFiles) : k # i })
    /\ lastOp' = [ op |-> "other" ]
    /\ UNCHANGED << formData, isDialogOpen, editingProduct, selectedProductId, submits, query >>
    /\ UNCHANGED dbVars

(***************************************************************************)
(* Opening and closing the dialog, and the product-details query.          *)
(***************************************************************************)
\* The objects of the query cache.
CachedRefs ==
    UNION { RefsOf(query[p].data.variants) :
               p \in { q \in DOMAIN query : query[q].data # NoData } }

\* The closed dialog still holds edits nobody saved: variants made or changed
\* in the form, or pending files.
HoldsEdits ==
    /\ ~isDialogOpen
    /\ \/ pendingFiles # << >>
       \/ ~(RefsOf(formData.variants) \subseteq CachedRefs)

\* A faulty handleOpenCreate: resetForm() is left out.
handleOpenCreateKeeps ==
    /\ isDialogOpen' = TRUE
    /\ lastOp' = [ op |-> "open", dirty |-> HoldsEdits ]
    /\ UNCHANGED << formData, pendingFiles, editingProduct, selectedProductId >>
    /\ UNCHANGED << submits, query >>
    /\ UNCHANGED dbVars

handleOpenCreate ==
    \* resetForm(), setIsDialogOpen(true)
    /\ formData' = EmptyForm
    /\ pendingFiles' = << >>
    /\ editingProduct' = NoProduct
    /\ selectedProductId' = NULL
    /\ isDialogOpen' = TRUE
    /\ lastOp' = [ op |-> "open", dirty |-> HoldsEdits ]
    /\ UNCHANGED << submits, query >>
    /\ UNCHANGED dbVars

handleOpenEdit(p) ==
    /\ p \in DOMAIN products
    /\ LET product == ListRow(p)
           cleared == [ sku |-> product.sku,
                        stock_quantity |-> ToString(product.stock_quantity),
                        variants |-> << >>, colors |-> << >>, sizes |-> << >> ]
           \* a query whose key is new to the observer fetches when it has no
           \* data or its data is stale
           q == IF selectedProductId # p /\ (query[p].data = NoData \/ query[p].stale)
                THEN [ query EXCEPT ![p].fetching = TRUE ]
                ELSE query
       IN  /\ editingProduct' = product
           /\ selectedProductId' = p
           /\ query' = q
           /\ formData' = PopulateForm(cleared, Deps, << DetailsOf(q, p), product, p >>)
    /\ pendingFiles' = << >>
    /\ isDialogOpen' = TRUE
    /\ lastOp' = [ op |-> "open", dirty |-> HoldsEdits ]
    /\ UNCHANGED submits
    /\ UNCHANGED dbVars

\* The Cancel button and the dialog's onOpenChange.
Cancel ==
    /\ isDialogOpen
    /\ isDialogOpen' = FALSE
    /\ lastOp' = [ op |-> "cancel" ]
    /\ UNCHANGED << formData, pendingFiles, editingProduct, selectedProductId, submits, query >>
    /\ UNCHANGED dbVars

\* The select of the product-details query answers; the rows of the product
\* come in an order the query does not fix.
FetchDetails(p) ==
    /\ query[p].fetching
    /\ IF p \in DOMAIN products
       THEN LET rows == RowsOf(product_variants, p)
            IN  \E f \in Permutations(1..Len(rows)) :
                  LET data == Shared(query[p].data,
                                     ProductDetails(p, products[p],
                                                    [ i \in 1..Len(rows) |-> rows[f[i]] ],
                                                    NewRefs(Len(rows))))
                      q == [ query EXCEPT ![p] = [ data |-> data, stale |-> FALSE, fetching |-> FALSE ] ]
                      form == PopulateForm(formData, Deps,
                                  << DetailsOf(q, selectedProductId), editingProduct, selectedProductId >>)
                  IN  /\ query' = q
                      /\ formData' = form
       ELSE \* .single() finds no row: the query fails and keeps its data
            /\ query' = [ query EXCEPT ![p].fetching = FALSE ]
            /\ UNCHANGED formData
    /\ lastOp' = [ op |-> "other" ]
    /\ UNCHANGED << pendingFiles, isDialogOpen, editingProduct, selectedProductId, submits >>
    /\ UNCHANGED dbVars

\* deleteColorMutation of the color library; product_variants.color_id is
\* declared ON DELETE SET NULL.
DeleteColor(c) ==
    /\ c \in colorsTable
    /\ colorsTable' = colorsTable \ {c}
    /\ product_variants' =
          [ i \in 1..Len(product_variants) |->
              IF product_variants[i].color_id = c
              THEN [ product_variants[i] EXCEPT !.color_id = NULL ]
              ELSE product_variants[i] ]
    /\ lastOp' = [ op |-> "other" ]
    /\ UNCHANGED << products, nextProduct, nextRow, uploadCount, orders >>
    /\ UNCHANGED << submits, query >>
    /\ UNCHANGED formVars

\* deleteMutation of the product list; product_variants.product_id is
\* declared ON DELETE CASCADE.
DeleteProduct(p) ==
    /\ p \in DOMAIN products
    /\ products' = [ q \in DOMAIN products \ {p} |-> products[q] ]
    /\ product_variants' =
          Filter(product_variants,
                 { i \in 1..Len(product_variants) : product_variants[i].product_id # p })
    /\ lastOp' = [ op |-> "deleteProduct", productId |-> p ]
    /\ UNCHANGED << colorsTable, orders, nextProduct, nextRow, uploadCount >>
    /\ UNCHANGED << submits, query >>
    /\ UNCHANGED formVars

\* The quantities typed into the "New Quantity" input of the inventory page.
StockEntries == {0, 7}

\* updateStockMutation of the inventory page: the product row gets the typed
\* quantity; the variant rows are not read or written.
UpdateStock(p, stock_quantity) ==
    /\ p \in DOMAIN products
    /\ stock_quantity # products[p].stock_quantity
    /\ products' = [ products EXCEPT ![p].stock_quantity = stock_quantity ]
    /\ lastOp' = [ op |-> "updateStock", productId |-> p ]
    /\ UNCHANGED << product_variants, colorsTable, orders, nextProduct, nextRow, uploadCount >>
    /\ UNCHANGED << submits, query >>
    /\ UNCHANGED formVars

(***************************************************************************)
(* handleSubmit.  Each await ends a step: the code between two awaits runs *)
(* as one action.  A running execution keeps what its closure captured     *)
(* (the form's sku, editingProduct, pendingFiles) and its locals.          *)
(***************************************************************************)
\* A faulty validation: it looks at the sizes where it should look at the colors.
RejectedBySizes(form) == Len(form.sizes) > 0 /\ Len(form.variants) = 0

\* The validation at the top of handleSubmit.
Rejected(form) == Len(form.colors) > 0 /\ Len(form.variants) = 0

\* A faulty forEach body: the URL goes to the variants of every color.
AttachUrlAll(variants, colorId, url, refs) ==
    [ i \in 1..Len(variants) |->
        [ variants[i] EXCEPT !.image_urls =
                                IF Includes(@, url) THEN @ ELSE Append(@, url),
                             !.ref = refs[i] ] ]

\* One uploaded result applied to the local copy of the variants: map makes a
\* new object of every variant of the color.
AttachUrl(variants, colorId, url, refs) ==
    [ i \in 1..Len(variants) |->
        IF variants[i].color_id = colorId
        THEN [ variants[i] EXCEPT !.image_urls =
                                     IF Includes(@, url) THEN @ ELSE Append(@, url),
                                  !.ref = refs[i] ]
        ELSE variants[i] ]

RECURSIVE AttachAll(_, _, _, _)
\* uploadedResults.forEach: the n-th pending file got the URL after  base + n.
AttachAll(variants, files, base, refs) ==
    IF files = << >> THEN variants
    ELSE LET n == Len(files)
             front == AttachAll(variants, SubSeq(files, 1, n - 1), base, refs)
         IN  AttachUrl(front, files[n].colorId, PublicUrl(base + n), refs)

\* A faulty productPayload: the stock of the first variant only.
ProductPayloadFirst(sku, currentVariants) ==
    [ sku |-> sku,
      stock_quantity |-> IF currentVariants = << >> THEN 0
                         ELSE currentVariants[1].stock_quantity ]

\* productPayload: the stock is summed over the local copy of the variants.
ProductPayload(sku, currentVariants) ==
    [ sku |-> sku, stock_quantity |-> SumStock(currentVariants) ]

\* A faulty fix-up: the last variant, not the first, is made primary.
EnsurePrimaryLast(currentVariants) ==
    IF Len(currentVariants) > 0
          /\ ~\E i \in 1..Len(currentVariants) : currentVariants[i].is_primary
    THEN [ currentVariants EXCEPT ![Len(currentVariants)].is_primary = TRUE ]
    ELSE currentVariants

\* "Ensure at least one variant is primary if any exist".
EnsurePrimary(currentVariants) ==
    IF Len(currentVariants) > 0
          /\ ~\E i \in 1..Len(currentVariants) : currentVariants[i].is_primary
    THEN [ currentVariants EXCEPT ![1].is_primary = TRUE ]
    ELSE currentVariants

\* A faulty variantsToInsert: every row goes to the first product.
VariantsToInsertFirst(productId, currentVariants) ==
    [ i \in 1..Len(currentVariants) |->
        [ product_id |-> ProductId(1),
          color_id |-> currentVariants[i].color_id,
          size |-> currentVariants[i].size,
          sku |-> currentVariants[i].sku,
          price |-> currentVariants[i].price,
          stock_quantity |-> currentVariants[i].stock_quantity,
          image_urls |-> currentVariants[i].image_urls,
          is_primary |-> currentVariants[i].is_primary ] ]

\* variantsToInsert.
VariantsToInsert(productId, currentVariants) ==
    [ i \in 1..Len(currentVariants) |->
        [ product_id |-> productId,
          color_id |-> currentVariants[i].color_id,
          size |-> currentVariants[i].size,
          sku |-> currentVariants[i].sku,
          price |-> currentVariants[i].price,
          stock_quantity |-> currentVariants[i].stock_quantity,
          image_urls |-> currentVariants[i].image_urls,
          is_primary |-> currentVariants[i].is_primary ] ]

\* The constraints of the schema on an insert into product_variants:
\* sku UNIQUE, product_id and color_id REFERENCES.
InsertAccepted(rows) ==
    /\ \A i, j \in 1..Len(rows) : i # j => rows[i].sku # rows[j].sku
    /\ \A i \in 1..Len(rows) : \A j \in 1..Len(product_variants) :
            rows[i].sku # product_variants[j].sku
    /\ \A i \in 1..Len(rows) :
            /\ rows[i].product_id \in DOMAIN products
            /\ rows[i].color_id = NULL \/ rows[i].color_id \in colorsTable

\* products.sku is UNIQUE.
SkuFree(sku, except) ==
    \A p \in DOMAIN products : p \in except \/ products[p].sku # sku

\* The catch block of handleSubmit: toast.error(message); the execution ends
\* where it failed.
Failure(s) == [ op |-> "saveFailed", at |-> s.pc, productId |-> s.productId ]

Without(k) == Filter(submits, { i \in 1..Len(submits) : i # k })

\* The submit button: the browser holds back the submit event while a
\* required input (Stock) is empty.
SubmitStart ==
    /\ isDialogOpen
    /\ formData.stock_quantity # ""
    /\ IF Rejected(formData)
       THEN \* toast.error("Please add at least one variant ..."); return
            /\ lastOp' = [ op |-> "rejected" ]
            /\ UNCHANGED submits
       ELSE /\ Len(submits) < MaxInFlight
            /\ submits' = Append(submits,
                  [ pc |-> IF Len(pendingFiles) > 0 THEN "upload" ELSE "product",
                    session |-> 1,
                    sku |-> formData.sku,
                    editing |-> editingProduct,
                    files |-> pendingFiles,
                    currentVariants |-> formData.variants,
                    productId |-> editingProduct.id,
                    payload |-> NoData,
                    fixed |-> FALSE,
                    rows |-> << >> ])
            /\ lastOp' = [ op |-> "other" ]
    /\ UNCHANGED << query >>
    /\ UNCHANGED formVars
    /\ UNCHANGED dbVars

\* What a second admin, in a browser of their own, changes in the first
\* variant row before saving: nothing, the SKU or the stock.
OtherEdits == { << >>, [ sku |-> "CUSTOM" ], [ stock_quantity |-> 3 ] }

\* A second admin saves product p: their dialog was opened on the product
\* and populated with its stored rows, they edited the first variant row and
\* pressed Save.  Their handleSubmit runs on objects of their own browser.
OtherAdminSubmit(p, updates) ==
    /\ p \in DOMAIN products
    /\ updates \in OtherEdits
    /\ Len(submits) < MaxInFlight
    /\ LET rows == RowsOf(product_variants, p)
           refs == NewRefs(Len(rows) + 1)
           loaded == PopulateForm(EmptyForm, << NoData, NoProduct, NULL >>,
                                  << ProductDetails(p, products[p], rows, refs),
                                     ListRow(p), p >>)
           form == IF loaded.variants = << >> THEN loaded
                   ELSE updateVariant(loaded, 1, updates, refs[Len(rows) + 1])
       IN  /\ ~Rejected(form)
           /\ submits' = Append(submits,
                 [ pc |-> "product",
                   session |-> 2,
                   sku |-> form.sku,
                   editing |-> ListRow(p),
                   files |-> << >>,
                   currentVariants |-> form.variants,
                   productId |-> p,
                   payload |-> NoData,
                   fixed |-> FALSE,
                   rows |-> << >> ])
    /\ lastOp' = [ op |-> "other" ]
    /\ UNCHANGED << query >>
    /\ UNCHANGED formVars
    /\ UNCHANGED dbVars

\* Promise.all resolves: every pending file of the closure was uploaded.
UploadsResolve(k) ==
    /\ k \in 1..Len(submits)
    /\ submits[k].pc = "upload"
    /\ LET s == submits[k]
           currentVariants == AttachAll(s.currentVariants, s.files, uploadCount,
                                        NewRefs(Len(s.currentVariants)))
       IN  /\ uploadCount' = uploadCount + Len(s.files)
           \* setFormData(prev => ({ ...prev, variants: currentVariants }))
           /\ formData' = [ formData EXCEPT !.variants = currentVariants ]
           /\ submits' = [ submits EXCEPT ![k].pc = "product",
                                          ![k].currentVariants = currentVariants ]
    /\ lastOp' = [ op |-> "other" ]
    /\ UNCHANGED << pendingFiles, isDialogOpen, editingProduct, selectedProductId, query >>
    /\ UNCHANGED << products, product_variants, colorsTable, orders, nextProduct, nextRow >>

\* A faulty upload step: the failed upload is skipped and the save goes on.
UploadFailsGoesOn(k) ==
    /\ k \in 1..Len(submits)
    /\ submits[k].pc = "upload"
    /\ \E stored \in 0..(Len(submits[k].files) - 1) :
          uploadCount' = uploadCount + stored
    /\ submits' = [ submits EXCEPT ![k].pc = "product" ]
    /\ lastOp' = [ op |-> "other" ]
    /\ UNCHANGED << query >>
    /\ UNCHANGED formVars
    /\ UNCHANGED << products, product_variants, colorsTable, orders, nextProduct, nextRow >>

\* One upload rejects: the catch block shows the error and the save ends.
\* The other uploads of the same Promise.all may have stored their objects.
UploadFails(k) ==
    /\ k \in 1..Len(submits)
    /\ submits[k].pc = "upload"
    /\ \E stored \in 0..(Len(submits[k].files) - 1) :
          uploadCount' = uploadCount + stored
    /\ submits' = Without(k)
    /\ lastOp' = Failure(submits[k])
    /\ UNCHANGED << query >>
    /\ UNCHANGED formVars
    /\ UNCHANGED << products, product_variants, colorsTable, orders, nextProduct, nextRow >>

\* The update or insert of the product row answers.
ProductWrite(k) ==
    /\ k \in 1..Len(submits)
    /\ submits[k].pc = "product"
    /\ LET s == submits[k]
           productPayload == ProductPayload(s.sku, s.currentVariants)
       IN  IF s.editing # NoProduct
           THEN IF SkuFree(productPayload.sku, {s.editing.id})
                THEN /\ products' = IF s.editing.id \in DOMAIN products
                                    THEN [ products EXCEPT ![s.editing.id] = productPayload ]
                                    ELSE products
                     /\ submits' = [ submits EXCEPT ![k].pc = "delete",
                                                    ![k].payload = productPayload ]
                     /\ lastOp' = [ op |-> "productWrite" ]
                     /\ UNCHANGED nextProduct
                ELSE /\ submits' = Without(k)
                     /\ lastOp' = Failure(s)
                     /\ UNCHANGED << products, nextProduct >>
           ELSE IF SkuFree(productPayload.sku, {})
                THEN /\ nextProduct < Cardinality(ProductIds)
                     /\ nextProduct' = nextProduct + 1
                     /\ products' = [ p \in DOMAIN products \cup {ProductId(nextProduct + 1)} |->
                                        IF p \in DOMAIN products THEN products[p]
                                        ELSE productPayload ]
                     /\ submits' = [ submits EXCEPT ![k].pc = "delete",
                                                    ![k].payload = productPayload,
                                                    ![k].productId = ProductId(nextProduct + 1) ]
                     /\ lastOp' = [ op |-> "productWrite" ]
                ELSE /\ submits' = Without(k)
                     /\ lastOp' = Failure(s)
                     /\ UNCHANGED << products, nextProduct >>
    /\ UNCHANGED << query >>
    /\ UNCHANGED formVars
    /\ UNCHANGED << product_variants, colorsTable, orders, nextRow, uploadCount >>

\* The end of a successful handleSubmit: invalidateQueries, toast.success,
\* setIsDialogOpen(false), resetForm().
Succeed(k, productId) ==
    /\ query' = [ p \in ProductIds |->
                    IF p = productId /\ query[p].data # NoData
                    THEN [ query[p] EXCEPT !.stale = TRUE,
                                           !.fetching = @ \/ selectedProductId = p ]
                    ELSE query[p] ]
    /\ isDialogOpen' = FALSE
    /\ formData' = EmptyForm
    /\ pendingFiles' = << >>
    /\ editingProduct' = NoProduct
    /\ selectedProductId' = NULL

\* The end of a successful handleSubmit in the session it ran in: the dialog
\* and the query cache of this browser are touched only by its own saves.
Finish(k, s) ==
    IF s.session = 1
    THEN Succeed(k, s.productId)
    ELSE UNCHANGED << formData, pendingFiles, isDialogOpen, editingProduct,
                      selectedProductId, query >>

\* The delete of the product's variant rows answers; the code then fixes the
\* primary flag, writing into the object that currentVariants[0] refers to,
\* and sends the insert, or finishes when there is nothing to insert.
DeleteVariants(k) ==
    /\ k \in 1..Len(submits)
    /\ submits[k].pc = "delete"
    /\ LET s == submits[k]
           currentVariants == EnsurePrimary(s.currentVariants)
           variantsToInsert == VariantsToInsert(s.productId, currentVariants)
           fixed == currentVariants # s.currentVariants
           \* the same write, seen through the other references to the object
           seen(vs) == IF fixed THEN WithPrimary(vs, s.currentVariants[1].ref) ELSE vs
       IN  /\ product_variants' =
                 Filter(product_variants,
                        { i \in 1..Len(product_variants) :
                            product_variants[i].product_id # s.productId })
           /\ IF Len(variantsToInsert) > 0
              THEN /\ submits' = [ i \in 1..Len(submits) |->
                         IF i = k
                         THEN [ s EXCEPT !.pc = "insert",
                                         !.currentVariants = currentVariants,
                                         !.fixed = fixed,
                                         !.rows = variantsToInsert ]
                         ELSE [ submits[i] EXCEPT !.currentVariants = seen(@) ] ]
                   /\ formData' = [ formData EXCEPT !.variants = seen(@) ]
                   /\ query' = [ p \in DOMAIN query |->
                         IF query[p].data = NoData THEN query[p]
                         ELSE [ query[p] EXCEPT !.data.variants = seen(@) ] ]
                   /\ lastOp' = [ op |-> "other" ]
                   /\ UNCHANGED << pendingFiles, isDialogOpen, editingProduct,
                                   selectedProductId >>
              ELSE /\ submits' = Without(k)
                   /\ Finish(k, s)
                   /\ lastOp' = [ op |-> "saved", productId |-> s.productId, fixed |-> FALSE ]
    /\ UNCHANGED << products, colorsTable, orders, nextProduct, nextRow, uploadCount >>

\* The insert of the variant rows answers; the database gives each row its id.
InsertVariants(k) ==
    /\ k \in 1..Len(submits)
    /\ submits[k].pc = "insert"
    /\ LET s == submits[k]
       IN  IF InsertAccepted(s.rows)
           THEN /\ product_variants' =
                      product_variants \o
                         [ i \in 1..Len(s.rows) |->
                             [ f \in DOMAIN s.rows[i] \cup {"id"} |->
                                 IF f = "id" THEN nextRow + i ELSE s.rows[i][f] ] ]
                /\ nextRow' = nextRow + Len(s.rows)
                /\ submits' = Without(k)
                /\ Finish(k, s)
                /\ lastOp' = [ op |-> "saved", productId |-> s.productId,
                               fixed |-> s.fixed ]
           ELSE /\ submits' = Without(k)
                /\ lastOp' = Failure(s)
                /\ UNCHANGED << product_variants, nextRow, query >>
                /\ UNCHANGED formVars
    /\ UNCHANGED << products, colorsTable, orders, nextProduct, uploadCount >>

\* A faulty failure path: the failed request is sent again.
RequestFailsRetries(k) ==
    /\ k \in 1..Len(submits)
    /\ submits[k].pc \in { "product", "delete", "insert" }
    /\ submits' = submits
    /\ lastOp' = Failure(submits[k])
    /\ UNCHANGED << query >>
    /\ UNCHANGED formVars
    /\ UNCHANGED dbVars

\* A faulty failure path: the catch block closes the dialog and resets the form.
RequestFailsCloses(k) ==
    /\ k \in 1..Len(submits)
    /\ submits[k].pc \in { "product", "delete", "insert" }
    /\ submits' = Without(k)
    /\ lastOp' = Failure(submits[k])
    /\ isDialogOpen' = FALSE
    /\ formData' = EmptyForm
    /\ pendingFiles' = << >>
    /\ editingProduct' = NoProduct
    /\ selectedProductId' = NULL
    /\ UNCHANGED << query >>
    /\ UNCHANGED dbVars

\* A request to the database fails (network, backend): nothing is written,
\* the catch block shows the error and the save ends.
RequestFails(k) ==
    /\ k \in 1..Len(submits)
    /\ submits[k].pc \in { "product", "delete", "insert" }
    /\ submits' = Without(k)
    /\ lastOp' = Failure(submits[k])
    /\ UNCHANGED << query >>
    /\ UNCHANGED formVars
    /\ UNCHANGED dbVars

(***************************************************************************)
(* Initial states.  The database persists across sessions: a run starts    *)
(* from an empty catalog or from one that earlier saves of this form left. *)
(***************************************************************************)
StoredRow(id, p, color, size, sku, stock, primary) ==
    [ id |-> id, product_id |-> p, color_id |-> color, size |-> size, sku |-> sku,
      price |-> NULL, stock_quantity |-> stock, image_urls |-> << >>,
      is_primary |-> primary ]

Catalogs ==
    { [ products |-> << >>, rows |-> << >>, next |-> 0 ],
      [ products |-> [ p \in {"p1"} |-> [ sku |-> "", stock_quantity |-> 3 ] ],
        rows |-> << StoredRow(1, "p1", "c1", "S", "RED-S-K7Q2", 3, TRUE) >>,
        next |-> 1 ],
      [ products |-> [ p \in {"p1"} |-> [ sku |-> "", stock_quantity |-> 0 ] ],
        rows |-> << StoredRow(1, "p1", "c1", "S", "RED-S-K7Q2", 0, TRUE),
                    StoredRow(2, "p1", "c2", "S", "BLU-S-X9A1", 0, FALSE) >>,
        next |-> 1 ],
      \* rows written before the form knew the primary flag (column default)
      [ products |-> [ p \in {"p1"} |-> [ sku |-> "", stock_quantity |-> 2 ] ],
        rows |-> << StoredRow(1, "p1", "c2", "S", "BLU-S-K7Q2", 2, FALSE),
                    StoredRow(2, "p1", "c2", "Medium", "BLU-MED-X9A1", 0, FALSE) >>,
        next |-> 1 ] }

(***************************************************************************)
(* The order screen.                                                       *)
(***************************************************************************)
\* CHECK (status IN (...)) of the orders table.
StatusAccepted(status) == status \in OrdersStatusCheck

\* onValueChange of the status Select of an order row, then
\* updateStatusMutation: the update is sent with the chosen item; the row is
\* written when the constraint accepts it, the request fails otherwise
\* (onError shows the message).
UpdateStatus(id, status) ==
    /\ id \in DOMAIN orders
    /\ status \in StatusItems
    /\ IF StatusAccepted(status)
       THEN /\ orders' = [ orders EXCEPT ![id] = status ]
            /\ lastOp' = [ op |-> "updateStatus", id |-> id, status |-> status,
                           error |-> FALSE ]
       ELSE /\ orders' = orders
            /\ lastOp' = [ op |-> "updateStatus", id |-> id, status |-> status,
                           error |-> TRUE ]
    /\ UNCHANGED << products, product_variants, colorsTable, nextProduct, nextRow,
                    uploadCount >>
    /\ UNCHANGED << submits, query >>
    /\ UNCHANGED formVars

InitForm ==
    /\ formData = EmptyForm
    /\ pendingFiles = << >>
    /\ editingProduct = NoProduct
    /\ selectedProductId = NULL
    /\ submits = << >>
    /\ query = [ p \in ProductIds |-> [ data |-> NoData, stale |-> FALSE, fetching |-> FALSE ] ]
    /\ colorsTable = ColorIds
    /\ uploadCount = 0
    /\ orders = SeedOrders
    /\ used = NoUse
    /\ lastOp = [ op |-> "other" ]

Init ==
    /\ InitForm
    /\ isDialogOpen = FALSE
    /\ \E c \in Catalogs :
          /\ products = c.products
          /\ product_variants = c.rows
          /\ nextProduct = c.next
          /\ nextRow = Len(c.rows)

\* The dialog opened by handleOpenCreate on any of the catalogs, with the
\* SKU and the stock typed in.
InitCreateOver ==
    /\ formData = [ EmptyForm EXCEPT !.sku = "NH", !.stock_quantity = "7" ]
    /\ pendingFiles = << >>
    /\ editingProduct = NoProduct
    /\ selectedProductId = NULL
    /\ submits = << >>
    /\ query = [ p \in ProductIds |-> [ data |-> NoData, stale |-> FALSE, fetching |-> FALSE ] ]
    /\ colorsTable = ColorIds
    /\ uploadCount = 0
    /\ orders = SeedOrders
    /\ used = NoUse
    /\ lastOp = [ op |-> "other" ]
    /\ isDialogOpen = TRUE
    /\ \E c \in Catalogs :
          /\ products = c.products
          /\ product_variants = c.rows
          /\ nextProduct = c.next
          /\ nextRow = Len(c.rows)

\* The dialog just opened by handleOpenCreate on an empty catalog.
InitCreate ==
    /\ InitForm
    /\ isDialogOpen = TRUE
    /\ products = << >>
    /\ product_variants = << >>
    /\ nextProduct = 0
    /\ nextRow = 0

\* The order screen over any stored orders; the product screen is closed.
InitOrders ==
    /\ formData = EmptyForm
    /\ pendingFiles = << >>
    /\ editingProduct = NoProduct
    /\ selectedProductId = NULL
    /\ submits = << >>
    /\ query = [ p \in ProductIds |-> [ data |-> NoData, stale |-> FALSE, fetching |-> FALSE ] ]
    /\ colorsTable = ColorIds
    /\ uploadCount = 0
    /\ used = NoUse
    /\ lastOp = [ op |-> "other" ]
    /\ isDialogOpen = FALSE
    /\ products = << >>
    /\ product_variants = << >>
    /\ nextProduct = 0
    /\ nextRow = 0
    /\ orders \in [ OrderIds -> OrdersStatusCheck ]

(***************************************************************************)
(* Next-state relations.                                                   *)
(***************************************************************************)
Within(field, max) == used[field] < max /\ used' = Count(field)

ListsOver(S) == UNION { [ 1..n -> S ] : n \in 0..MaxArgLen }

Free == UNCHANGED used
Event == Within("events", MaxEvents)

\* The variant matrix by itself: setColors and setSizes with any lists.
NextMatrix ==
    \/ \E colors \in ListsOver(ColorIds) : CallSetColors(colors) /\ Free
    \/ \E sizes \in ListsOver(SizeLabels) : CallSetSizes(sizes) /\ Free

SpecMatrix == InitCreate /\ [][NextMatrix]_vars

\* One outcome of Math.random for every pair.
OneSuffix == [ pr \in ColorIds \X SizeLabels |-> CHOOSE r \in RandomSuffixes : TRUE ]

\* The order screen: any item of the Select chosen on any row.
NextOrders ==
    \/ \E id \in OrderIds : \E status \in StatusItems : UpdateStatus(id, status) /\ Free

SpecOrders == InitOrders /\ [][NextOrders]_vars

\* The two axes called with any lists on the forms of a new and of a stored
\* product, after edits of the rows.  The generated SKUs end in one suffix:
\* neither function reads the SKU of a variant.
NextAxes ==
    \/ \E colors \in ListsOver(ColorIds) :
          /\ CallSetColors(colors) /\ Event
          /\ formData' = setColors(formData, colors, OneSuffix,
                                    NewRefs(Len(colors) * Len(formData.sizes)))
    \/ \E sizes \in ListsOver(SizeLabels) :
          /\ CallSetSizes(sizes) /\ Event
          /\ formData' = setSizes(formData, sizes, OneSuffix,
                                   NewRefs(Len(formData.colors) * Len(sizes)))
    \/ \E c \in ColorIds : SetPrimaryColor(c) /\ Event
    \/ \E i \in 1..Len(formData.variants) : \E u \in VariantUpdates :
          UpdateVariant(i, u) /\ Event
    \/ handleOpenCreate /\ Event
    \/ \E p \in ProductIds : handleOpenEdit(p) /\ Event
    \/ \E p \in ProductIds : FetchDetails(p) /\ Free

SpecAxes == Init /\ [][NextAxes]_vars

\* The form of the dialog, opened on a new or on a stored product, with the
\* details query and the color library but without saves.
NextForm ==
    \/ \E c \in ColorIds : AddColor(c) /\ Event
    \/ \E i \in 1..Cardinality(ColorIds) : RemoveColor(i) /\ Event
    \/ \E size \in SizeLabels : AddSize(size) /\ Event
    \/ \E i \in 1..Cardinality(SizeLabels) : RemoveSize(i) /\ Event
    \/ \E c \in ColorIds : SetPrimaryColor(c) /\ Event
    \/ \E i \in 1..Len(formData.variants) : \E u \in VariantUpdates :
          UpdateVariant(i, u) /\ Event
    \/ \E i \in 1..Len(formData.variants) : RemoveVariant(i) /\ Event
    \/ handleOpenCreate /\ Event
    \/ \E p \in ProductIds : handleOpenEdit(p) /\ Event
    \/ \E p \in ProductIds : FetchDetails(p) /\ Free
    \/ \E c \in ColorIds : DeleteColor(c) /\ Free

SpecForm == Init /\ [][NextForm]_vars

\* Saving: the dialog opened on a new or on a stored product, filled in and
\* submitted, with every await of handleSubmit a step of its own.
NextSave ==
    \/ \E c \in ColorIds : AddColor(c) /\ Event
    \/ \E size \in SizeLabels : AddSize(size) /\ Event
    \/ \E i \in 1..Len(formData.variants) : \E u \in VariantUpdates :
          UpdateVariant(i, u) /\ Event
    \/ \E i \in 1..Len(formData.variants) : RemoveVariant(i) /\ Event
    \/ \E c \in ColorIds : SetPrimaryColor(c) /\ Event
    \/ \E sku \in ProductSkus : EditField("sku", sku) /\ Event
    \/ EditField("stock_quantity", "7") /\ Event
    \/ \E f \in Files : \E c \in ColorIds : HandleImageUpload(f, c) /\ Event
    \/ handleOpenCreate /\ Event
    \/ \E p \in ProductIds : handleOpenEdit(p) /\ Event
    \/ SubmitStart /\ Event
    \/ \E p \in ProductIds : FetchDetails(p) /\ Free
    \/ \E k \in 1..MaxInFlight : UploadsResolve(k) /\ Free
    \/ \E k \in 1..MaxInFlight : ProductWrite(k) /\ Free
    \/ \E k \in 1..MaxInFlight : DeleteVariants(k) /\ Free
    \/ \E k \in 1..MaxInFlight : InsertVariants(k) /\ Free
    \/ \E k \in 1..MaxInFlight : UploadFails(k) /\ Within("failures", MaxFailures)
    \/ \E k \in 1..MaxInFlight : RequestFails(k) /\ Within("failures", MaxFailures)

SpecSave == Init /\ [][NextSave]_vars

\* The catalog: saves of the dialog next to the other writers of the
\* products table, the delete button of the product list and the inventory
\* page.
NextCatalog ==
    \/ \E c \in ColorIds : AddColor(c) /\ Event
    \/ \E size \in SizeLabels : AddSize(size) /\ Event
    \/ \E i \in 1..Len(formData.variants) : \E u \in VariantUpdates :
          UpdateVariant(i, u) /\ Event
    \/ EditField("stock_quantity", "7") /\ Event
    \/ handleOpenCreate /\ Event
    \/ \E p \in ProductIds : handleOpenEdit(p) /\ Event
    \/ SubmitStart /\ Event
    \/ \E p \in ProductIds : DeleteProduct(p) /\ Event
    \/ \E p \in ProductIds : \E n \in StockEntries : UpdateStock(p, n) /\ Event
    \/ \E p \in ProductIds : FetchDetails(p) /\ Free
    \/ \E k \in 1..MaxInFlight : ProductWrite(k) /\ Free
    \/ \E k \in 1..MaxInFlight : DeleteVariants(k) /\ Free
    \/ \E k \in 1..MaxInFlight : InsertVariants(k) /\ Free
    \/ \E k \in 1..MaxInFlight : RequestFails(k) /\ Within("failures", MaxFailures)

SpecCatalog == Init /\ [][NextCatalog]_vars

\* The dialog opened, edited, closed without saving and opened again.
NextDialog ==
    \/ \E c \in ColorIds : AddColor(c) /\ Event
    \/ \E size \in SizeLabels : AddSize(size) /\ Event
    \/ \E i \in 1..Len(formData.variants) : \E u \in VariantUpdates :
          UpdateVariant(i, u) /\ Event
    \/ \E c \in ColorIds : SetPrimaryColor(c) /\ Event
    \/ \E sku \in ProductSkus : EditField("sku", sku) /\ Event
    \/ \E f \in Files : \E c \in ColorIds : HandleImageUpload(f, c) /\ Event
    \/ Cancel /\ Event
    \/ handleOpenCreate /\ Event
    \/ \E p \in ProductIds : handleOpenEdit(p) /\ Event
    \/ \E p \in ProductIds : FetchDetails(p) /\ Free

SpecDialog == Init /\ [][NextDialog]_vars

\* A catalog of at most one product with one variant.
InitReopen == Init /\ Len(product_variants) <= 1

\* The dialog opened from the product list, edited, cancelled and opened
\* again.  The dialog is modal: the list is clicked while it is closed.
NextReopen ==
    \/ \E p \in ProductIds : ~isDialogOpen /\ handleOpenEdit(p) /\ Event
    \/ ~isDialogOpen /\ handleOpenCreate /\ Event
    \/ Cancel /\ Event
    \/ \E i \in 1..Len(formData.variants) : \E u \in VariantUpdates :
          UpdateVariant(i, u) /\ Event
    \/ \E i \in 1..Len(formData.variants) : RemoveVariant(i) /\ Event
    \/ \E size \in SizeLabels : AddSize(size) /\ Event
    \/ \E sku \in ProductSkus : EditField("sku", sku) /\ Event
    \/ \E p \in ProductIds : FetchDetails(p) /\ Free

\* A details fetch that was sent is answered.
SpecReopen ==
    InitReopen /\ [][NextReopen]_vars
        /\ \A p \in ProductIds : WF_vars(FetchDetails(p) /\ Free)

\* One create session: the dialog opened by handleOpenCreate on an empty
\* catalog, filled in and submitted; after a failure the admin presses Save
\* again, having changed the form or not.
NextRetry ==
    \/ \E c \in ColorIds : AddColor(c) /\ Event
    \/ \E size \in SizeLabels : AddSize(size) /\ Event
    \/ \E sku \in ProductSkus : EditField("sku", sku) /\ Event
    \/ EditField("stock_quantity", "7") /\ Event
    \/ submits = << >> /\ SubmitStart /\ Event
    \/ \E k \in 1..MaxInFlight : ProductWrite(k) /\ Free
    \/ \E k \in 1..MaxInFlight : DeleteVariants(k) /\ Free
    \/ \E k \in 1..MaxInFlight : InsertVariants(k) /\ Free
    \/ \E k \in 1..MaxInFlight : RequestFails(k) /\ Within("failures", MaxFailures)

SpecRetry == InitCreate /\ [][NextRetry]_vars

\* One dialog session with images: a stored product is opened while nothing
\* was uploaded yet, files are chosen, and Save is pressed again after a
\* failure; one save runs at a time.
NextUploads ==
    \/ \E p \in ProductIds :
          uploadCount = 0 /\ ~isDialogOpen /\ handleOpenEdit(p) /\ Event
    \/ \E c \in ColorIds : AddColor(c) /\ Event
    \/ \E size \in SizeLabels : AddSize(size) /\ Event
    \/ \E i \in 1..Len(formData.variants) : RemoveVariant(i) /\ Event
    \/ \E f \in Files : \E c \in ColorIds : HandleImageUpload(f, c) /\ Event
    \/ submits = << >> /\ SubmitStart /\ Event
    \/ \E p \in ProductIds : FetchDetails(p) /\ Free
    \/ \E k \in 1..MaxInFlight : UploadsResolve(k) /\ Free
    \/ \E k \in 1..MaxInFlight : ProductWrite(k) /\ Free
    \/ \E k \in 1..MaxInFlight : DeleteVariants(k) /\ Free
    \/ \E k \in 1..MaxInFlight : InsertVariants(k) /\ Free
    \/ \E k \in 1..MaxInFlight : RequestFails(k) /\ Within("failures", MaxFailures)

SpecUploads == Init /\ [][NextUploads]_vars

\* Saves next to the rows of another product: a product is created, or a
\* stored one edited, in a catalog that holds a product already.
NextFrame ==
    \/ \E c \in ColorIds : AddColor(c) /\ Event
    \/ \E size \in SizeLabels : AddSize(size) /\ Event
    \/ EditField("stock_quantity", "7") /\ Event
    \/ \E sku \in ProductSkus : EditField("sku", sku) /\ Event
    \/ \E p \in ProductIds : handleOpenEdit(p) /\ Event
    \/ SubmitStart /\ Event
    \/ \E p \in ProductIds : FetchDetails(p) /\ Free
    \/ \E k \in 1..MaxInFlight : ProductWrite(k) /\ Free
    \/ \E k \in 1..MaxInFlight : DeleteVariants(k) /\ Free
    \/ \E k \in 1..MaxInFlight : InsertVariants(k) /\ Free
    \/ \E k \in 1..MaxInFlight : RequestFails(k) /\ Within("failures", MaxFailures)

SpecFrame == InitCreateOver /\ [][NextFrame]_vars

\* The create dialog after whatever came before: an edit dialog that was
\* cancelled or whose save is still running.  The dialog is modal: the list
\* and the Add button are clicked while it is closed.
NextCreate ==
    \/ \E p \in ProductIds : ~isDialogOpen /\ handleOpenEdit(p) /\ Event
    \/ ~isDialogOpen /\ handleOpenCreate /\ Event
    \/ Cancel /\ Free
    \/ \E c \in ColorIds : AddColor(c) /\ Event
    \/ \E sku \in ProductSkus : EditField("sku", sku) /\ Event
    \/ EditField("stock_quantity", "7") /\ Event
    \/ \E f \in Files : \E c \in ColorIds : HandleImageUpload(f, c) /\ Event
    \/ SubmitStart /\ Event
    \/ \E p \in ProductIds : FetchDetails(p) /\ Free
    \/ \E k \in 1..MaxInFlight : UploadsResolve(k) /\ Free
    \/ \E k \in 1..MaxInFlight : ProductWrite(k) /\ Free
    \/ \E k \in 1..MaxInFlight : DeleteVariants(k) /\ Free
    \/ \E k \in 1..MaxInFlight : InsertVariants(k) /\ Free
    \/ \E k \in 1..MaxInFlight : RequestFails(k) /\ Within("failures", MaxFailures)

SpecCreate == Init /\ [][NextCreate]_vars

\* Two admins: each has at most one save running, so every overlap of
\* saves is one of the two browsers against the other.
NoneOf(session) == \A k \in 1..Len(submits) : submits[k].session # session

NextAdmins ==
    \/ \E p \in ProductIds : handleOpenEdit(p) /\ Event
    \/ \E i \in 1..Len(formData.variants) : \E u \in VariantUpdates :
          UpdateVariant(i, u) /\ Event
    \/ SubmitStart /\ NoneOf(1) /\ Event
    \/ \E p \in ProductIds : \E u \in OtherEdits :
          OtherAdminSubmit(p, u) /\ NoneOf(2) /\ Event
    \/ \E p \in ProductIds : FetchDetails(p) /\ Free
    \/ \E k \in 1..MaxInFlight : ProductWrite(k) /\ Free
    \/ \E k \in 1..MaxInFlight : DeleteVariants(k) /\ Free
    \/ \E k \in 1..MaxInFlight : InsertVariants(k) /\ Free

SpecAdmins == Init /\ [][NextAdmins]_vars

\* The dialog, its saves, the details query and the color library.
Next ==
    \/ \E c \in ColorIds : AddColor(c) /\ Event
    \/ \E i \in 1..Cardinality(ColorIds) : RemoveColor(i) /\ Event
    \/ \E size \in SizeLabels : AddSize(size) /\ Event
    \/ \E i \in 1..Cardinality(SizeLabels) : RemoveSize(i) /\ Event
    \/ \E i \in 1..Len(formData.variants) : \E u \in VariantUpdates :
          UpdateVariant(i, u) /\ Event
    \/ \E i \in 1..Len(formData.variants) : RemoveVariant(i) /\ Event
    \/ \E c \in ColorIds : SetPrimaryColor(c) /\ Event
    \/ \E c \in ColorIds : \E n \in 1..uploadCount : RemoveColorImage(c, PublicUrl(n)) /\ Event
    \/ \E sku \in ProductSkus : EditField("sku", sku) /\ Event
    \/ EditField("stock_quantity", "7") /\ Event
    \/ \E f \in Files : \E c \in ColorIds : HandleImageUpload(f, c) /\ Event
    \/ \E i \in 1..MaxPending : RemovePending(i) /\ Event
    \/ handleOpenCreate /\ Event
    \/ \E p \in ProductIds : handleOpenEdit(p) /\ Event
    \/ Cancel /\ Event
    \/ SubmitStart /\ Event
    \/ \E p \in ProductIds : FetchDetails(p) /\ Free
    \/ \E c \in ColorIds : DeleteColor(c) /\ Free
    \/ \E k \in 1..MaxInFlight : UploadsResolve(k) /\ Free
    \/ \E k \in 1..MaxInFlight : ProductWrite(k) /\ Free
    \/ \E k \in 1..MaxInFlight : DeleteVariants(k) /\ Free
    \/ \E k \in 1..MaxInFlight : InsertVariants(k) /\ Free
    \/ \E k \in 1..MaxInFlight : UploadFails(k) /\ Within("failures", MaxFailures)
    \/ \E k \in 1..MaxInFlight : RequestFails(k) /\ Within("failures", MaxFailures)

Spec == Init /\ [][Next]_vars

(***************************************************************************)
(* Properties.                                                             *)
(***************************************************************************)
PairsOf(vs, color, size) ==
    { i \in 1..Len(vs) : vs[i].color_id = color /\ vs[i].size = size }

\* The variant list is the matrix of two sets: one variant per pair, no other.
IsMatrix(vs, C, S) ==
    /\ \A c \in C : \A sz \in S : Cardinality(PairsOf(vs, c, sz)) = 1
    /\ \A i \in 1..Len(vs) : vs[i].color_id \in C /\ vs[i].size \in S
    /\ Len(vs) = Cardinality(C) * Cardinality(S)

\* C1: from the empty form, after any sequence of setColors and setSizes
\* calls that leaves the colors C and the sizes S selected, the variant list
\* holds exactly one variant per pair of C x S and nothing else, hence
\* |C| * |S| entries.
C1_MatrixComplete ==
    IsMatrix(formData.variants, Range(formData.colors), Range(formData.sizes))

\* C1 happens: two colors and two sizes are selected after a call that grew a
\* non-empty list to the four variants.
C1_Witness ==
    /\ lastOp.op = "setColors"
    /\ lastOp.n = 2 /\ lastOp.kept = 2
    /\ Cardinality(Range(formData.colors)) = 2
    /\ Cardinality(Range(formData.sizes)) = 2
    /\ Len(formData.variants) = 4
IsPrefix(a, b) == Len(a) <= Len(b) /\ SubSeq(b, 1, Len(a)) = a

\* A variant as setSizes / setColors create it, whatever its SKU.
IsFresh(v) ==
    /\ v.stock_quantity = 0 /\ v.price = NULL
    /\ v.image_urls = << >> /\ v.is_primary = FALSE

\* The entries of  new  after the first  n  are created ones, each for a pair
\* that none of the first  n  covers.
TailCreated(new, n) ==
    \A i \in (n + 1)..Len(new) :
        /\ IsFresh(new[i])
        /\ ~\E j \in 1..n : new[j].color_id = new[i].color_id /\ new[j].size = new[i].size

SizesShrink ==
    /\ lastOp'.op = "setSizes"
    /\ Range(formData'.sizes) \subseteq Range(formData.sizes)
    /\ Range(formData'.sizes) # Range(formData.sizes)

\* C2: in any state of the form, setSizes called with the current sizes minus
\* one or more of them removes exactly the variants of the dropped sizes; every
\* other variant stays in the list, in order, with its stock, price, images,
\* SKU and primary flag as before (what the call appends is a variant it
\* creates for a pair that was missing).
C2_SizesShrinkFrame ==
    [][ SizesShrink =>
          LET old == formData.variants
              new == formData'.variants
              S2 == Range(formData'.sizes)
              others == Filter(old, { i \in 1..Len(old) : old[i].size \in S2 })
          IN  /\ IsPrefix(others, new)
              /\ \A i \in 1..Len(new) : new[i].size \in S2
              /\ TailCreated(new, Len(others)) ]_vars

\* C2 happens: a call of setSizes dropped some variants and kept others, one
\* of them with an edited stock, SKU or price or with the primary flag.
C2_Witness ==
    /\ lastOp.op = "setSizes"
    /\ 0 < lastOp.kept /\ lastOp.kept < lastOp.n
    /\ \E i \in 1..lastOp.kept :
          LET v == formData.variants[i]
          IN  v.is_primary \/ v.stock_quantity > 0 \/ v.sku = "CUSTOM" \/ v.price # NULL
ColorsShrink ==
    /\ lastOp'.op = "setColors"
    /\ Range(formData'.colors) \subseteq Range(formData.colors)
    /\ Range(formData'.colors) # Range(formData.colors)

\* The example: the matrix of {Red, Blue} x {S, Medium}.
RedBlueMatrix(form) ==
    /\ Range(form.colors) = {"c1", "c2"}
    /\ Range(form.sizes) = {"S", "Medium"}
    /\ IsMatrix(form.variants, {"c1", "c2"}, {"S", "Medium"})

RedOnly(vs) == Filter(vs, { i \in 1..Len(vs) : vs[i].color_id = "c1" })

ColorAdded(c) ==
    /\ lastOp'.op = "setColors"
    /\ ~Includes(formData.colors, c)
    /\ formData'.colors = Append(formData.colors, c)

\* The entries of  new  after the first  n  are one created variant of color
\* c  for each selected size, and nothing else.
OnePerSize(new, n, c, S) ==
    /\ Len(new) = n + Cardinality(S)
    /\ \A i \in (n + 1)..Len(new) : new[i].color_id = c /\ IsFresh(new[i])
    /\ \A sz \in S : \E i \in (n + 1)..Len(new) : new[i].size = sz

Primaries(vs) == { i \in 1..Len(vs) : vs[i].is_primary }

\* C5: after every successful save, the variant rows stored for the saved
\* product have exactly one primary row when there is a row, and none when
\* there is no row.
C5_OnePrimaryAfterSave ==
    lastOp.op = "saved" =>
        LET rows == RowsOf(product_variants, lastOp.productId)
        IN  Cardinality(Primaries(rows)) = IF Len(rows) > 0 THEN 1 ELSE 0
\* The rows a step appended to product_variants.
Inserted == SubSeq(product_variants', Len(product_variants) + 1, Len(product_variants'))

Flags(vs) == [ i \in 1..Len(vs) |-> vs[i].is_primary ]

\* Execution k of handleSubmit ends with its insert accepted.
InsertDone(k) ==
    /\ k \in 1..Len(submits)
    /\ submits[k].pc = "insert"
    /\ lastOp'.op = "saved"
    /\ Len(product_variants') > Len(product_variants)
    /\ submits' = [ i \in 1..(Len(submits) - 1) |-> submits[IF i < k THEN i ELSE i + 1] ]

\* Execution k of handleSubmit gets its delete answered and prepares the
\* rows of its insert.
RowsPrepared(k) ==
    /\ k \in 1..Len(submits)
    /\ submits[k].pc = "delete"
    /\ Len(submits') = Len(submits)
    /\ submits'[k].pc = "insert"

C6_WitnessKept ==
    /\ lastOp.op = "saved" /\ ~lastOp.fixed
    /\ LET rows == RowsOf(product_variants, lastOp.productId)
       IN  Len(rows) >= 2 /\ Primaries(rows) = {2}
\* C7: setPrimaryColor(c) leaves the primary flag on exactly the first
\* variant, in list order, whose color is c, and off on every other variant
\* of c and on the variants of every other color; it changes no other field
\* and neither adds, removes nor reorders variants.
C7_SetPrimaryColor ==
    [][ lastOp'.op = "setPrimaryColor" =>
          LET old == formData.variants
              new == formData'.variants
              c == lastOp'.arg
              ofColor == { i \in 1..Len(old) : old[i].color_id = c }
          IN  /\ Len(new) = Len(old)
              /\ \A i \in 1..Len(old) :
                    /\ new[i].is_primary = (i \in ofColor /\ \A j \in ofColor : i <= j)
                    /\ [ new[i] EXCEPT !.is_primary = old[i].is_primary,
                                       !.ref = old[i].ref ] = old[i]
              /\ [ formData' EXCEPT !.variants = old ] = formData ]_vars

\* C7 happens: the primary color was set to a color with two variants while
\* the flag was on a variant of another color listed before them.
C7_Witness ==
    /\ lastOp.op = "setPrimaryColor"
    /\ \E i, j, k \in 1..Len(formData.variants) :
          /\ k < i /\ i < j
          /\ formData.variants[k].color_id # lastOp.arg
          /\ formData.variants[i].color_id = lastOp.arg
          /\ formData.variants[j].color_id = lastOp.arg
          /\ Primaries(formData.variants) = {i}
\* Each color group of a variant list has at most one primary variant, and at
\* most one color group has one.
OnePrimaryGroup(vs) ==
    /\ \A c \in ColorIds \cup {NULL} :
          Cardinality({ i \in Primaries(vs) : vs[i].color_id = c }) <= 1
    /\ Cardinality({ vs[i].color_id : i \in Primaries(vs) }) <= 1

\* C8: in every reachable state of the form, and in the rows stored for any
\* product after any sequence of saves, each color group has at most one
\* primary variant and at most one color group has a primary variant.
C8_OnePrimaryGroup ==
    /\ OnePrimaryGroup(formData.variants)
    /\ \A p \in ProductIds : OnePrimaryGroup(RowsOf(product_variants, p))
\* C9: handleSubmit called while some color is selected and the variant list
\* is empty is rejected with the validation message: no execution starts (no
\* upload, no request to the database), and the form, the pending files, the
\* open dialog and all stored data stay as they are.
C9_RejectedSubmit ==
    [][ /\ (Len(formData.colors) > 0 /\ formData.variants = << >>)
            => Len(submits') <= Len(submits)
        /\ lastOp'.op = "rejected"
            => /\ Len(formData.colors) > 0 /\ formData.variants = << >>
               /\ isDialogOpen'
               /\ UNCHANGED << formData, pendingFiles, isDialogOpen, editingProduct,
                               selectedProductId, submits, query >>
               /\ UNCHANGED dbVars ]_vars

\* C9 happens: a submit was rejected on a form with a color and no variant.
C9_Witness ==
    /\ lastOp.op = "rejected"
    /\ Len(formData.colors) > 0 /\ formData.variants = << >>
    /\ isDialogOpen
\* The stock of the first  n  entries of a list of variants or rows.
RECURSIVE StockOfFirst(_, _)
StockOfFirst(vs, n) ==
    IF n = 0 THEN 0 ELSE vs[n].stock_quantity + StockOfFirst(vs, n - 1)

\* Execution k of handleSubmit gets its write of the product row accepted.
ProductWritten(k) ==
    /\ k \in 1..Len(submits)
    /\ submits[k].pc = "product"
    /\ lastOp'.op = "productWrite"
    /\ Len(submits') = Len(submits)
    /\ submits'[k].pc = "delete"

\* C10: the stock_quantity a save writes to the product row is the sum of
\* stock_quantity over the variants of the list that save submits, whatever
\* the Stock field of the form holds; the rows the save then inserts are
\* that list, so they add up to the value written.
C10_StockIsVariantSum ==
    [][ \A k \in 1..MaxInFlight :
          /\ ProductWritten(k) =>
                LET list == submits[k].currentVariants
                    p == submits'[k].productId
                IN  /\ p \in DOMAIN products'
                    /\ products'[p].stock_quantity = StockOfFirst(list, Len(list))
                    /\ submits'[k].payload.stock_quantity = StockOfFirst(list, Len(list))
          /\ InsertDone(k) =>
                StockOfFirst(Inserted, Len(Inserted)) = submits[k].payload.stock_quantity
      ]_vars

\* C10 happens: a save wrote the sum of two variants, 3 = 3 + 0, to the
\* product row while the Stock field of the form said 7.
C10_Witness ==
    /\ lastOp.op = "productWrite"
    /\ formData.stock_quantity = "7"
    /\ \E k \in 1..Len(submits) :
          /\ submits[k].pc = "delete"
          /\ Len(submits[k].currentVariants) >= 2
          /\ submits[k].payload.stock_quantity = 3
          /\ products[submits[k].productId].stock_quantity = 3
\* C11: whenever no save is in progress, the stock of every stored product is
\* the sum of the stocks of its stored variants, whatever saves, product
\* deletions and inventory updates came before.
C11_StockDerived ==
    submits = << >> =>
        \A p \in DOMAIN products :
            products[p].stock_quantity = SumStock(RowsOf(product_variants, p))
\* Execution k of handleSubmit takes the step: it moves on or it ends.
Actor(k) ==
    /\ k \in 1..Len(submits)
    /\ \/ submits' = Without(k)
       \/ Len(submits') = Len(submits) /\ submits'[k].pc # submits[k].pc

\* C12: a save with pending files writes nothing to products or
\* product_variants while its uploads are out: it has written nothing when
\* they answer, it goes on to the product write only when every upload was
\* stored, and when one upload fails it ends with the error shown, the stored
\* product and variants as they were and the dialog as it was.
C12_UploadsBeforeWrites ==
    [][ \A k \in 1..MaxInFlight :
          (Actor(k) /\ submits[k].pc = "upload") =>
             /\ submits[k].files # << >>
             /\ submits[k].payload = NoData /\ submits[k].rows = << >>
             /\ UNCHANGED << products, product_variants >>
             /\ IF submits' = Without(k)
                THEN /\ lastOp' = [ op |-> "saveFailed", at |-> "upload",
                                    productId |-> submits[k].productId ]
                     /\ uploadCount' < uploadCount + Len(submits[k].files)
                     /\ UNCHANGED << formData, pendingFiles, isDialogOpen, editingProduct >>
                ELSE /\ submits'[k].pc = "product"
                     /\ uploadCount' = uploadCount + Len(submits[k].files)
      ]_vars

\* C12 happens: the upload of a save of a stored product failed.
C12_Witness ==
    /\ lastOp.op = "saveFailed" /\ lastOp.at = "upload"
    /\ lastOp.productId \in DOMAIN products
    /\ RowsOf(product_variants, lastOp.productId) # << >>
    /\ isDialogOpen /\ pendingFiles # << >>
\* What the claim compares of a variant or of a stored row.
Columns(v) ==
    [ color_id |-> v.color_id, size |-> v.size, sku |-> v.sku, price |-> v.price,
      stock_quantity |-> v.stock_quantity, image_urls |-> v.image_urls ]

ColumnsOf(vs) == [ i \in 1..Len(vs) |-> Columns(vs[i]) ]

\* The URLs that the uploads of execution k bring to the variants of a color,
\* in the order of the pending files.
UploadedFor(k, colorId) ==
    LET files == submits[k].files
        mine == Filter([ n \in 1..Len(files) |-> n ],
                       { n \in 1..Len(files) : files[n].colorId = colorId })
    IN  [ j \in 1..Len(mine) |-> PublicUrl(uploadCount + mine[j]) ]

\* C13: after a successful save the rows stored for the product are the
\* variant list of that save, one row per entry in list order with the color,
\* size, SKU, price and stock of the entry and its images, the images being
\* those of the form at submit time followed by the URLs uploaded in the save;
\* no other row of the product is left.
C13_StoredIsSubmitted ==
    [][ \A k \in 1..MaxInFlight :
          /\ (Actor(k) /\ submits[k].pc = "upload" /\ submits' # Without(k)) =>
                LET old == submits[k].currentVariants
                    new == submits'[k].currentVariants
                IN  /\ Len(new) = Len(old)
                    /\ \A i \in 1..Len(old) :
                          Columns(new[i]) =
                             [ Columns(old[i]) EXCEPT !.image_urls =
                                 @ \o UploadedFor(k, old[i].color_id) ]
          /\ (Actor(k) /\ submits[k].pc \in { "delete", "insert" }
                       /\ lastOp'.op = "saved") =>
                ColumnsOf(RowsOf(product_variants', submits[k].productId))
                   = ColumnsOf(submits[k].currentVariants)
      ]_vars
\* The insert of a save was refused or did not get through.
InsertFailed == lastOp'.op = "saveFailed" /\ lastOp'.at = "insert"

\* The failed step ends one execution that awaited its insert, shows the
\* error, writes nothing, restores nothing and starts nothing.
InsertFailureEnds ==
    /\ \E k \in 1..Len(submits) :
          /\ submits[k].pc = "insert"
          /\ submits[k].productId = lastOp'.productId
          /\ submits' = Without(k)
    /\ UNCHANGED << products, product_variants >>
    /\ UNCHANGED formVars

WriteFailed ==
    lastOp'.op = "saveFailed" /\ lastOp'.at \in { "product", "delete", "insert" }

\* C15: when a write of a save fails, the execution ends in the catch block
\* with the error shown, and the failure changes nothing of the dialog: it is
\* open as before, and the form fields, the variant list, the pending files
\* and the editing target are what they were, so that the next submit sends
\* the whole submission again.
C15_FailureKeepsForm ==
    [][ WriteFailed =>
          /\ \E k \in 1..Len(submits) :
                /\ submits[k].pc = lastOp'.at
                /\ submits[k].productId = lastOp'.productId
                /\ submits' = Without(k)
          /\ UNCHANGED << formData, pendingFiles, isDialogOpen, editingProduct,
                          selectedProductId >>
      ]_vars

\* C15 happens: a write failed and the open dialog still holds the edited
\* product with its variants.
C15_Witness ==
    /\ lastOp.op = "saveFailed" /\ lastOp.at \in { "product", "delete", "insert" }
    /\ isDialogOpen /\ editingProduct # NoProduct
    /\ formData.variants # << >>
    /\ submits = << >>

\* C16: when the saves of two admins on one product overlap, whatever the
\* order of their requests, what is stored for the product when the last of
\* them has succeeded and no save is running any more is that one submission:
\* its product row and its variant rows.
C16_LastWriterWins ==
    [][ \A k \in 1..MaxInFlight :
          (Actor(k) /\ lastOp'.op = "saved" /\ submits' = << >>) =>
             LET p == submits[k].productId
             IN  /\ p \in DOMAIN products'
                 /\ products'[p] = submits[k].payload
                 /\ ColumnsOf(RowsOf(product_variants', p))
                       = ColumnsOf(submits[k].currentVariants)
      ]_vars

\* C17: from an empty form, as long as no color is selected or no size is
\* selected the variant list is empty, whatever lists setColors and setSizes
\* were called with.
C17_EmptyAxisEmptyMatrix ==
    (formData.colors = << >> \/ formData.sizes = << >>) => formData.variants = << >>

\* C17 happens: two colors were selected with no size, and no variant was made;
\* and sizes were selected and taken away again under a selected color.
C17_Witness ==
    /\ lastOp.op = "setColors" /\ lastOp.n = 0
    /\ Len(formData.colors) = 2 /\ formData.sizes = << >>
    /\ formData.variants = << >>

C17_WitnessEmptied ==
    /\ lastOp.op = "setSizes" /\ lastOp.n = 2 /\ lastOp.kept = 0
    /\ Len(formData.colors) > 0 /\ formData.sizes = << >>
    /\ formData.variants = << >>
\* C18: closing the dialog writes nothing, and the next opening shows nothing
\* of what the closed dialog held: handleOpenCreate gives the empty form,
\* handleOpenEdit gives the fields of the stored product with either no
\* variants or the variants, colors and sizes of the product details, and
\* both leave no pending file.  What a later submit sends is that form.
C18_CancelDiscards ==
    [][ /\ lastOp'.op = "cancel" =>
             /\ UNCHANGED << products, product_variants, colorsTable, uploadCount >>
             /\ UNCHANGED << submits, query >>
        /\ lastOp'.op = "open" =>
             /\ isDialogOpen' /\ pendingFiles' = << >>
             /\ IF editingProduct' = NoProduct
                THEN formData' = EmptyForm
                ELSE LET p == editingProduct'.id
                         data == query'[p].data
                     IN  /\ editingProduct' = ListRow(p)
                         /\ \/ /\ formData'.variants = << >>
                               /\ formData'.colors = << >> /\ formData'.sizes = << >>
                               /\ formData'.sku = products[p].sku
                               /\ formData'.stock_quantity = ToString(products[p].stock_quantity)
                            \/ /\ data # NoData
                               /\ formData'.variants = data.variants
                               /\ formData'.colors = data.colors
                               /\ formData'.sizes = data.sizes
                               /\ formData'.sku = data.sku
                               /\ formData'.stock_quantity = ToString(data.stock_quantity)
      ]_vars

\* C18 happens: a dialog closed with unsaved edits was opened again on a
\* stored product whose details are cached, and the form holds none of the
\* variants and files the closed dialog held.
C18_Witness ==
    /\ lastOp.op = "open" /\ lastOp.dirty
    /\ editingProduct # NoProduct
    /\ query[editingProduct.id].data # NoData
    /\ pendingFiles = << >>
    /\ RefsOf(formData.variants) \subseteq CachedRefs

\* C18 happens for a new product too: the edits of a closed dialog are gone
\* when handleOpenCreate opens it.
C18_WitnessCreate ==
    /\ lastOp.op = "open" /\ lastOp.dirty
    /\ editingProduct = NoProduct /\ formData = EmptyForm
\* C19: in every state of the form, every variant has its color among the
\* selected colors and its size among the selected sizes, and no two
\* variants have the same color and size.
C19_FormWithinAxes ==
    LET vs == formData.variants
    IN  /\ \A i \in 1..Len(vs) :
             /\ vs[i].color_id \in Range(formData.colors)
             /\ vs[i].size \in Range(formData.sizes)
        /\ \A i, j \in 1..Len(vs) :
             (vs[i].color_id = vs[j].color_id /\ vs[i].size = vs[j].size) => i = j
\* C20: a save of a stored product submitted while the product's details
\* were not loaded yet, from a form without variants (handleOpenEdit emptied
\* it and the populate effect has not run), deletes none of the product's
\* stored variants and does not bring its stock to 0.
C20_UnpopulatedSaveKeepsRows ==
    [][ \A k \in 1..MaxInFlight :
          ( /\ Actor(k)
            /\ submits[k].editing # NoProduct
            /\ submits[k].currentVariants = << >>
            /\ query[submits[k].productId].data = NoData
            /\ submits[k].productId \in DOMAIN products ) =>
          LET p == submits[k].productId
          IN  /\ p \in DOMAIN products'
              /\ RowsOf(product_variants', p) = RowsOf(product_variants, p)
              /\ products[p].stock_quantity # 0 => products'[p].stock_quantity # 0
      ]_vars
\* The form shows what is stored for product p: its variants, colors and
\* sizes are those of the product details, which are the stored rows.
ShowsStored(p) ==
    /\ p \in DOMAIN products
    /\ query[p].data # NoData
    /\ formData.variants = query[p].data.variants
    /\ formData.colors = query[p].data.colors
    /\ formData.sizes = query[p].data.sizes
    /\ Len(formData.variants) = Len(RowsOf(product_variants, p))
    /\ Range(ColumnsOf(formData.variants)) = Range(ColumnsOf(RowsOf(product_variants, p)))

\* C21: every handleOpenEdit(p) is followed, once the details fetch has
\* answered, by a form that shows the colors, sizes and variants stored for
\* p, unless the admin has turned the dialog to another target meanwhile;
\* this includes opening p again after Cancel with an unchanged cache.
C21_OpenEditPopulates ==
    \A p \in ProductIds :
       [](( /\ lastOp.op = "open"
            /\ editingProduct # NoProduct
            /\ editingProduct.id = p ) =>
          <>( \/ ShowsStored(p)
              \/ editingProduct = NoProduct
              \/ editingProduct.id # p ))
\* C22: at most one handleSubmit execution of the dialog is awaiting its
\* uploads or its database responses at any time.
C22_OneSaveInFlight ==
    Cardinality({ k \in 1..Len(submits) : submits[k].session = 1 }) <= 1
\* C23: in one create session, when a save has succeeded there is exactly
\* one product row, also after an earlier save of the session failed at the
\* variant delete or insert, behind its product insert.
C23_OneRowPerSession ==
    lastOp.op = "saved" => Cardinality(DOMAIN products) = 1
\* The pending files of a color.
FilesOf(files, colorId) == { n \in 1..Len(files) : files[n].colorId = colorId }

\* C24: in a dialog session that began with no image stored, when a save
\* succeeds, also after failed attempts whose uploads had succeeded, every
\* stored variant of the product holds at most one URL per pending file of
\* its color.
C24_OneUrlPerFile ==
    [][ \A k \in 1..MaxInFlight :
          (Actor(k) /\ lastOp'.op = "saved") =>
          LET rows == RowsOf(product_variants', submits[k].productId)
          IN  \A i \in 1..Len(rows) :
                Len(rows[i].image_urls)
                    <= Cardinality(FilesOf(submits[k].files, rows[i].color_id))
      ]_vars
\* The uploads of execution k have resolved with this step.
Uploaded(k) ==
    Actor(k) /\ submits[k].pc = "upload" /\ submits' # Without(k)

\* C25: when the uploads of a save have resolved, the image list of every
\* variant begins with the list it had, in the same order, and goes on with
\* the new URLs of the pending files of the variant's color, each once; a
\* variant gets no URL of a file of another color.
C25_UrlsGoToTheirColor ==
    [][ \A k \in 1..MaxInFlight :
          Uploaded(k) =>
            LET old == submits[k].currentVariants
                new == submits'[k].currentVariants
                files == submits[k].files
            IN  /\ Len(new) = Len(old)
                /\ \A i \in 1..Len(old) :
                      LET mine == FilesOf(files, old[i].color_id)
                          added == { PublicUrl(uploadCount + n) : n \in mine }
                      IN  /\ IsPrefix(old[i].image_urls, new[i].image_urls)
                          /\ Range(new[i].image_urls)
                                = Range(old[i].image_urls) \cup added
                          /\ Len(new[i].image_urls)
                                = Len(old[i].image_urls) + Cardinality(mine)
      ]_vars

\* C25 happens: the uploads of a save have resolved, a variant of the file's
\* color has the new URL and a variant of another color has none.
C25_Witness ==
    \E k \in 1..Len(submits) :
       /\ submits[k].pc = "product" /\ submits[k].files # << >>
       /\ \E i, j \in 1..Len(submits[k].currentVariants) :
             LET vs == submits[k].currentVariants
             IN  /\ vs[i].color_id = submits[k].files[1].colorId
                 /\ Includes(vs[i].image_urls, PublicUrl(uploadCount))
                 /\ vs[j].color_id # vs[i].color_id
                 /\ vs[j].image_urls = << >>

\* C25 happens on a list that held a URL already: the old URL stays first.
C25_WitnessOrder ==
    \E k \in 1..Len(submits) :
       /\ submits[k].pc = "product" /\ submits[k].files # << >>
       /\ \E i \in 1..Len(submits[k].currentVariants) :
             LET urls == submits[k].currentVariants[i].image_urls
             IN  Len(urls) = 2 /\ urls[1] # urls[2] /\ urls[2] = PublicUrl(uploadCount)
\* C26: when a save has succeeded, every URL its uploads produced is in the
\* image list of at least one stored variant of the product.
C26_NoOrphanUpload ==
    [][ \A k \in 1..MaxInFlight :
          (Actor(k) /\ lastOp'.op = "saved") =>
          LET rows == RowsOf(product_variants', submits[k].productId)
              files == submits[k].files
          IN  \A n \in 1..Len(files) :
                \E i \in 1..Len(rows) :
                   Includes(rows[i].image_urls,
                            PublicUrl(uploadCount - Len(files) + n))
      ]_vars
\* C27: a save writes variant rows of its own product only.  Its product id
\* is the id of the product it edits, or the id the insert of its new
\* product row returned; its delete and its insert leave the rows of every
\* other product as they were, and every row it inserts carries that id.
C27_OwnRowsOnly ==
    [][ \A k \in 1..MaxInFlight :
          Actor(k) =>
          LET s == submits[k]
              p == s.productId
          IN  /\ s.pc \in { "upload", "product" } => UNCHANGED product_variants
              /\ (s.pc = "product" /\ submits' # Without(k)) =>
                    IF s.editing # NoProduct
                    THEN /\ submits'[k].productId = s.editing.id
                         /\ DOMAIN products' = DOMAIN products
                         /\ \A q \in DOMAIN products \ {s.editing.id} :
                               products'[q] = products[q]
                    ELSE /\ submits'[k].productId \notin DOMAIN products
                         /\ DOMAIN products' = DOMAIN products \cup {submits'[k].productId}
                         /\ \A q \in DOMAIN products : products'[q] = products[q]
              /\ s.pc \in { "delete", "insert" } =>
                    /\ \A q \in ProductIds \ {p} :
                          RowsOf(product_variants', q) = RowsOf(product_variants, q)
                    /\ \A i \in 1..Len(product_variants') :
                          product_variants'[i].id > nextRow =>
                             /\ product_variants'[i].product_id = p
                             /\ p \in DOMAIN products
      ]_vars

\* C27 happens: a save has stored rows for its product next to the rows of
\* another product.
C27_Witness ==
    /\ lastOp.op = "saved"
    /\ RowsOf(product_variants, lastOp.productId) # << >>
    /\ \E q \in DOMAIN products \ {lastOp.productId} :
          RowsOf(product_variants, q) # << >>
\* A step that is no act of the admin: a request or a fetch answering.
Answering == used'.events = used.events /\ lastOp'.op # "cancel"

\* C28: handleOpenCreate leaves the empty form, no pending file and no
\* editing target; while the create dialog is open, nothing that was begun
\* before it (a details fetch, a save of another dialog) puts anything into
\* the form; and a save submitted from it inserts a product row, changes no
\* stored product row and no variant row of a stored product.
C28_CreateStartsClean ==
    [][ /\ (lastOp'.op = "open" /\ editingProduct' = NoProduct) =>
              /\ formData' = EmptyForm /\ pendingFiles' = << >>
              /\ selectedProductId' = NULL
        /\ (isDialogOpen /\ editingProduct = NoProduct /\ Answering) =>
              \/ /\ Range(formData'.variants) \subseteq Range(formData.variants)
                 /\ Range(formData'.colors) \subseteq Range(formData.colors)
                 /\ Range(formData'.sizes) \subseteq Range(formData.sizes)
                 /\ Range(pendingFiles') \subseteq Range(pendingFiles)
                 /\ formData'.sku \in {formData.sku, ""}
                 /\ formData'.stock_quantity \in {formData.stock_quantity, ""}
                 /\ editingProduct' = NoProduct
              \/ \E k \in 1..MaxInFlight : Actor(k) /\ submits[k].editing = NoProduct
        /\ \A k \in 1..MaxInFlight :
              (Actor(k) /\ submits[k].editing = NoProduct) =>
                 /\ \A q \in DOMAIN products :
                       /\ q \in DOMAIN products' /\ products'[q] = products[q]
                       /\ q # submits[k].productId =>
                             RowsOf(product_variants', q) = RowsOf(product_variants, q)
                 /\ (submits[k].pc = "product" /\ submits' # Without(k)) =>
                       submits'[k].productId \in DOMAIN products' \ DOMAIN products
      ]_vars
\* The two orders of one setColors and one setSizes call on a form; the
\* identities of the new objects play no part in what is compared.
Objects(n) == [ i \in 1..n |-> i ]

ColorsThenSizes(prev, C, S) ==
    LET mid == setColors(prev, C, OneSuffix, Objects(Len(C) * Len(prev.sizes)))
    IN  setSizes(mid, S, OneSuffix, Objects(Len(C) * Len(S)))

SizesThenColors(prev, C, S) ==
    LET mid == setSizes(prev, S, OneSuffix, Objects(Len(prev.colors) * Len(S)))
    IN  setColors(mid, C, OneSuffix, Objects(Len(C) * Len(S)))

PairSet(vs) == { <<vs[i].color_id, vs[i].size>> : i \in 1..Len(vs) }

\* Color, size, stock, price override, image list and primary flag of the
\* variants at the (color, size) pairs of  old.
ValuesAt(vs, old) ==
    { << vs[i].color_id, vs[i].size, vs[i].stock_quantity, vs[i].price,
         vs[i].image_urls, vs[i].is_primary >> :
        i \in { k \in 1..Len(vs) : <<vs[k].color_id, vs[k].size>> \in old } }

\* Two variant lists with the same pairs and the same values at the pairs
\* of  old.
SameOutcome(x, y, old) ==
    \A a \in {x} : \A b \in {y} :
        /\ PairSet(a) = PairSet(b)
        /\ ValuesAt(a, old) = ValuesAt(b, old)

\* C29: on every form the dialog reaches, setColors(C) then setSizes(S) and
\* setSizes(S) then setColors(C) give the same set of (color, size) pairs and,
\* for every pair the form held before, the same stock, price override, image
\* list and primary flag.  The first call of one order is the step taken; the
\* second call and the other order are computed on its two ends.
C29_AxesCommute ==
    [][ /\ lastOp'.op = "setColors" =>
              \A S \in ListsOver(SizeLabels) :
                 SameOutcome(
                    setSizes(formData', S, OneSuffix,
                             Objects(Len(formData'.colors) * Len(S))).variants,
                    SizesThenColors(formData, formData'.colors, S).variants,
                    PairSet(formData.variants))
        /\ lastOp'.op = "setSizes" =>
              \A C \in ListsOver(ColorIds) :
                 SameOutcome(
                    ColorsThenSizes(formData, C, formData'.sizes).variants,
                    setColors(formData', C, OneSuffix,
                              Objects(Len(C) * Len(formData'.sizes))).variants,
                    PairSet(formData.variants))
      ]_vars

\* C29 happens: a setColors or setSizes call has been made, the form holds a
\* variant with an edited stock and a primary variant, and for some C and S
\* both orders keep the edited one, drop another variant and add a missing
\* pair, passing through different lists.
C29_Witness ==
    /\ lastOp.op \in {"setColors", "setSizes"}
    /\ \E i \in 1..Len(formData.variants) : formData.variants[i].stock_quantity = 3
    /\ \E i \in 1..Len(formData.variants) : formData.variants[i].is_primary
    /\ \E C \in ListsOver(ColorIds) : \E S \in ListsOver(SizeLabels) :
          LET a == ColorsThenSizes(formData, C, S).variants
              old == PairSet(formData.variants)
          IN  /\ \E x \in ValuesAt(a, old) : x[3] = 3
              /\ old \ PairSet(a) # {}
              /\ PairSet(a) \ old # {}
              /\ PairSet(setColors(formData, C, OneSuffix, Objects(4)).variants)
                    # PairSet(setSizes(formData, S, OneSuffix, Objects(4)).variants)
\* C30: every status the Select of the order screen sends is accepted by the
\* CHECK constraint of orders.status: no status update is rejected.
C30_StatusAccepted ==
    lastOp.op = "updateStatus" => ~lastOp.error
====
